---- MODULE Spec2Model ----
(***************************************************************************)
(* Model of scripts/fix_basis_empty_string.py: a one-shot patcher that     *)
(* reads calc.go as a list of lines, rewrites the lines at a fixed list of *)
(* indices when they contain an expected pattern, writes the list back and *)
(* prints a summary.                                                       *)
(*                                                                         *)
(* Text is modelled as a sequence of tokens.  Every whitespace character   *)
(* (" ", "\t", "\n") is a token of its own and no other token begins with  *)
(* a whitespace character, so lstrip(), len() differences over leading     *)
(* whitespace, the substring test and the split into lines by readlines()  *)
(* act on tokens exactly as they act on characters.                        *)
(***************************************************************************)
EXTENDS Integers, Sequences, FiniteSets

VARIABLES
    file,       \* content of calc.go on disk, one flat text
    lines,      \* the list 'lines' in memory (each entry a text)
    fix_lines,  \* the list of target indices (0-indexed, as in Python)
    k,          \* position of the for loop in fix_lines (1-based)
    pc,         \* "read", "loop", "print", "done" or "error" (uncaught IndexError)
    stdout,     \* what print() has written
    outcome,    \* history: per processed target, "applied" or "skipped"
    loaded,     \* history: the list as readlines() returned it in this run
    file0,      \* history: the file as it stood when this run started
    run,        \* number of the current run of the script (1 or 2)
    prev        \* history: file, outcome and document length of the previous run

vars == <<file, lines, fix_lines, k, pc, stdout, outcome, loaded, file0, run, prev>>

---------------------------------------------------------------------------
\* Bounds of the model.
MaxLines == 2       \* chunks of text the initial file is made of (Spec)
MaxTargets == 2     \* length of fix_lines
MaxLong == 6        \* lines of the initial file in the two-run specification

---------------------------------------------------------------------------
\* Text helpers (Python str / list operations used by the script).

\* line 18: the literal the script looks for
Pattern ==
    <<"if basis = ", "argsList.Back().Value.(formulaArg)",
      ".ToNumber(); basis.Type != ArgNumber {">>

\* characters str.lstrip() removes that occur in the modelled alphabet
Whitespace == {" ", "\t", "\n"}

RECURSIVE lstrip(_)
lstrip(s) ==
    IF s # <<>> /\ Head(s) \in Whitespace THEN lstrip(Tail(s)) ELSE s

\* Python's  p in s  for texts: p occurs as a contiguous run of s
In(p, s) ==
    \E j \in 0..(Len(s) - Len(p)) : SubSeq(s, j + 1, j + Len(p)) = p

\* line 20: len(line) - len(line.lstrip())
indent(line) == Len(line) - Len(lstrip(line))

\* line 21: ' ' * indent
indent_str(n) == [j \in 1..n |-> " "]

\* ''.join(list) and f.writelines(list): the concatenation of the entries
RECURSIVE join(_)
join(ls) == IF ls = <<>> THEN <<>> ELSE Head(ls) \o join(Tail(ls))

writelines(ls) == join(ls)

\* index of the first "\n" of a non-empty text, or its length when it has none
RECURSIVE LineEnd(_, _)
LineEnd(f, j) ==
    IF j >= Len(f) \/ f[j] = "\n" THEN j ELSE LineEnd(f, j + 1)

\* f.readlines(): the text cut after every "\n", line ends kept
RECURSIVE readlines(_)
readlines(f) ==
    IF f = <<>> THEN <<>>
    ELSE LET n == LineEnd(f, 1)
         IN  <<SubSeq(f, 1, n)>> \o readlines(SubSeq(f, n + 1, Len(f)))

\* mutant of InRange: negative indices are rejected
InRangeNonNegative(i, n) == 0 <= i /\ i < n

\* Python list indexing lines[i]: valid for -n <= i < n, else IndexError
InRange(i, n) == -n <= i /\ i < n

\* the 1-based position the Python index i denotes in a list of n entries
At(i, n) == IF i < 0 THEN n + i + 1 ELSE i + 1

\* mutant of Matches: only the head of the pattern is looked for
MatchesHead(line) == In(<<Pattern[1]>>, line)

\* line 18: the pattern test
Matches(line) == In(Pattern, line)

\* mutant of new_lines: the matched statement is re-emitted unchanged
new_lines_reemit(s) ==
    << s \o <<"basisArg := ", "argsList.Back().Value.(formulaArg)", "\n">>,
       s \o <<"if isLiteralEmptyString(basisArg) {", "\n">>,
       s \o <<"\t", "return newErrorFormulaArg(formulaErrorNUM, formulaErrorNUM)", "\n">>,
       s \o <<"}", "\n">>,
       s \o Pattern \o <<"\n">> >>

\* mutant of new_lines: the last line of the block has no line end
new_lines_no_newline(s) ==
    << s \o <<"basisArg := ", "argsList.Back().Value.(formulaArg)", "\n">>,
       s \o <<"if isLiteralEmptyString(basisArg) {", "\n">>,
       s \o <<"\t", "return newErrorFormulaArg(formulaErrorNUM, formulaErrorNUM)", "\n">>,
       s \o <<"}", "\n">>,
       s \o <<"if basis = ", "basisArg", ".ToNumber(); basis.Type != ArgNumber {">> >>

\* mutant of new_lines: the guard is put after the matched statement
new_lines_guard_after(s) ==
    << s \o Pattern \o <<"\n">>,
       s \o <<"basisArg := ", "argsList.Back().Value.(formulaArg)", "\n">>,
       s \o <<"if isLiteralEmptyString(basisArg) {", "\n">>,
       s \o <<"\t", "return newErrorFormulaArg(formulaErrorNUM, formulaErrorNUM)", "\n">>,
       s \o <<"}", "\n">> >>

\* lines 24-30: the replacement block for indentation s
new_lines(s) ==
    << s \o <<"basisArg := ", "argsList.Back().Value.(formulaArg)", "\n">>,
       s \o <<"if isLiteralEmptyString(basisArg) {", "\n">>,
       s \o <<"\t", "return newErrorFormulaArg(formulaErrorNUM, formulaErrorNUM)", "\n">>,
       s \o <<"}", "\n">>,
       s \o <<"if basis = ", "basisArg", ".ToNumber(); basis.Type != ArgNumber {", "\n">> >>

\* mutant of Replace: the slice assignment lines[i:i+1] = new_lines
Splice(ls, p, nl) == SubSeq(ls, 1, p - 1) \o nl \o SubSeq(ls, p + 1, Len(ls))

\* lines 32-33: lines[line_idx] = ''.join(new_lines), one entry is assigned
Replace(ls, p, nl) == [ls EXCEPT ![p] = join(nl)]

---------------------------------------------------------------------------
\* Initial states.

\* pieces of text the initial file is assembled from
Chunks ==
    { <<"\t">> \o Pattern \o <<"\n">>,
      <<" ">> \o Pattern,
      <<"\t", " ">> \o <<"} else ">> \o Pattern \o <<" ", "// c", "\n">>,
      <<"x", "\n">>,
      <<"\t", "if basis = ", "basisArg", ".ToNumber(); basis.Type != ArgNumber {", "\n">>,
      Pattern \o <<"\n">> }

SeqsUpTo(S, n) == UNION { [1..m -> S] : m \in 0..n }

InitCommon ==
    /\ lines = <<>>
    /\ k = 0
    /\ pc = "read"
    /\ stdout = <<>>
    /\ outcome = <<>>
    /\ loaded = <<>>
    /\ file0 = file
    /\ run = 1
    /\ prev = [file |-> <<>>, outcome |-> <<>>, n |-> 0]

Init ==
    /\ file \in { join(d) : d \in SeqsUpTo(Chunks, MaxLines) }
    /\ fix_lines \in SeqsUpTo(-(MaxLines + 1)..MaxLines, MaxTargets)
    /\ InitCommon

LongChunks == { <<"\t">> \o Pattern \o <<"\n">>, <<"x", "\n">> }

InitLong ==
    /\ file \in { join(d) : d \in [1..MaxLong -> LongChunks] }
    /\ fix_lines \in SeqsUpTo(-1..MaxLong, MaxTargets)
    /\ InitCommon

---------------------------------------------------------------------------
\* Steps of the script.

\* lines 9-10
Read ==
    /\ pc = "read"
    /\ lines' = readlines(file)
    /\ loaded' = lines'
    /\ k' = 1
    /\ pc' = "loop"
    /\ UNCHANGED <<file, fix_lines, stdout, outcome, file0, run, prev>>

\* line 16: the loop has a target left; line_idx is that target
InLoop == pc = "loop" /\ k <= Len(fix_lines)
line_idx == fix_lines[k]
pos == At(line_idx, Len(lines))

\* mutant of StepIndexError: the IndexError is caught and the target skipped
StepIndexErrorSwallowed ==
    /\ InLoop
    /\ ~InRange(line_idx, Len(lines))
    /\ outcome' = Append(outcome, "skipped")
    /\ k' = k + 1
    /\ UNCHANGED <<file, lines, fix_lines, pc, stdout, loaded, file0, run, prev>>

\* line 18, lines[line_idx] out of range: IndexError, nothing catches it
StepIndexError ==
    /\ InLoop
    /\ ~InRange(line_idx, Len(lines))
    /\ pc' = "error"
    /\ UNCHANGED <<file, lines, fix_lines, k, stdout, outcome, loaded, file0, run, prev>>

\* lines 18-33: the pattern is in the line, the entry is replaced
StepApply ==
    /\ InLoop
    /\ InRange(line_idx, Len(lines))
    /\ Matches(lines[pos])
    /\ lines' = Replace(lines, pos, new_lines(indent_str(indent(lines[pos]))))
    /\ outcome' = Append(outcome, "applied")
    /\ k' = k + 1
    /\ UNCHANGED <<file, fix_lines, pc, stdout, loaded, file0, run, prev>>

\* line 18: the pattern is not in the line, next target
StepSkip ==
    /\ InLoop
    /\ InRange(line_idx, Len(lines))
    /\ ~Matches(lines[pos])
    /\ outcome' = Append(outcome, "skipped")
    /\ k' = k + 1
    /\ UNCHANGED <<file, lines, fix_lines, pc, stdout, loaded, file0, run, prev>>

\* lines 36-37
Write ==
    /\ pc = "loop"
    /\ k > Len(fix_lines)
    /\ file' = writelines(lines)
    /\ pc' = "print"
    /\ UNCHANGED <<lines, fix_lines, k, stdout, outcome, loaded, file0, run, prev>>

\* line 39
Report ==
    /\ pc = "print"
    /\ stdout' = Append(stdout, <<"Fixed", Len(fix_lines), "basis parameter checks">>)
    /\ pc' = "done"
    /\ UNCHANGED <<file, lines, fix_lines, k, outcome, loaded, file0, run, prev>>

\* the script is started again on the file its first run wrote
Rerun ==
    /\ pc = "done"
    /\ run = 1
    /\ run' = 2
    /\ prev' = [file |-> file, outcome |-> outcome, n |-> Len(loaded)]
    /\ file0' = file
    /\ lines' = <<>>
    /\ loaded' = <<>>
    /\ outcome' = <<>>
    /\ stdout' = <<>>
    /\ k' = 0
    /\ pc' = "read"
    /\ UNCHANGED <<file, fix_lines>>

Next ==
    \/ Read
    \/ StepIndexError
    \/ StepApply
    \/ StepSkip
    \/ Write
    \/ Report

NextRerun ==
    \/ Next
    \/ Rerun

Spec == Init /\ [][Next]_vars

SpecRerun == InitLong /\ [][NextRerun]_vars

---------------------------------------------------------------------------
\* Vocabulary of the properties.

\* the step just taken applied the current target
AppliedStep == InLoop /\ outcome' = Append(outcome, "applied")

\* number of targets of this run recorded as applied
AppliedCount == Cardinality({ j \in DOMAIN outcome : outcome[j] = "applied" })

\* positions of the list a target applied so far in this run addressed
Patched ==
    { At(fix_lines[j], Len(loaded)) : j \in { i \in DOMAIN outcome : outcome[i] = "applied" } }

\* positions the previous run patched
PrevPatched ==
    { At(fix_lines[j], prev.n) :
        j \in { i \in DOMAIN prev.outcome : prev.outcome[i] = "applied" } }

\* the leading whitespace of a line
Prefix(line) == SubSeq(line, 1, indent(line))

\* the rewritten statement the block ends with
Rewritten == <<"if basis = ", "basisArg", ".ToNumber(); basis.Type != ArgNumber {">>

---------------------------------------------------------------------------
\* C1: when the run has ended, the count the summary line reports equals the
\* number of targets whose pattern was in the line at their index when they
\* were processed (skipped targets are not counted).
C1_CountAccuracy ==
    pc = "done" =>
        /\ Len(stdout) = 1
        /\ stdout[1][2] = AppliedCount

\* C2: a target is applied only if the line at its index contains the pattern;
\* when the pattern is absent the step leaves every entry of the document as
\* it was, raises no error and records the target as skipped.
C2_PreconditionSafety ==
    [][ (InLoop /\ -Len(lines) <= line_idx /\ line_idx < Len(lines)) =>
          /\ ~In(Pattern, lines[pos]) =>
                /\ lines' = lines
                /\ file' = file
                /\ pc' = "loop"
                /\ outcome' = Append(outcome, "skipped")
          /\ outcome' = Append(outcome, "applied") => In(Pattern, lines[pos])
      ]_vars

\* a target was skipped on a line that holds only the head of the pattern,
\* and the document is as loaded
C2_Witness ==
    /\ pc = "loop"
    /\ outcome = <<"skipped">>
    /\ lines = loaded
    /\ In(<<Pattern[1]>>, lines[At(fix_lines[1], Len(lines))])

\* C3 (as stated): a second run with the same targets on the file the first
\* run wrote applies no target and leaves the file as the first run left it.
C3_Idempotence ==
    (run = 2 /\ pc = "done") =>
        /\ AppliedCount = 0
        /\ file = prev.file

\* C3 (amended): the second run raises no error and applies no target whose
\* index is non-negative and not beyond the first line the first run
\* patched; if the first run patched nothing, the second run applies nothing
\* and leaves the file as it is.
C3_SecondRunUpToFirstPatch ==
    run = 2 =>
        /\ pc # "error"
        /\ \A j \in DOMAIN outcome :
              (fix_lines[j] >= 0 /\ \A q \in PrevPatched : fix_lines[j] + 1 <= q)
                  => outcome[j] = "skipped"
        /\ PrevPatched = {} => (AppliedCount = 0 /\ file = prev.file)

\* the second run has revisited the first line the first run patched
C3_Witness ==
    /\ run = 2
    /\ pc = "done"
    /\ PrevPatched # {}
    /\ \E j \in DOMAIN outcome :
          /\ fix_lines[j] + 1 \in PrevPatched
          /\ \A q \in PrevPatched : fix_lines[j] + 1 <= q
          /\ outcome[j] = "skipped"

\* C4 (as stated): the last line of the replacement block has the same text
\* as the line that was matched.
C4_OriginalLineKept ==
    [][ AppliedStep =>
          LET b == readlines(lines'[pos])
          IN  b[Len(b)] = lines[pos]
      ]_vars

\* C4 (amended): the block is five lines; the first binds basisArg to the
\* expression the pattern evaluates, and the last is the pattern's statement
\* with that expression replaced by basisArg, behind as many spaces as the
\* matched line had leading whitespace characters and ended by a line end;
\* text around the pattern on the matched line is not carried over.
C4_BlockShape ==
    [][ AppliedStep =>
          LET b == readlines(lines'[pos])
              s == [j \in 1..indent(lines[pos]) |-> " "]
          IN  /\ Len(b) = 5
              /\ b[1] = s \o <<"basisArg := ", Pattern[2], "\n">>
              /\ b[5] = s \o Rewritten \o <<"\n">>
              /\ [j \in 1..Len(Rewritten) |->
                    IF Rewritten[j] = "basisArg" THEN Pattern[2] ELSE Rewritten[j]]
                 = Pattern
      ]_vars

\* a line with text before and after the pattern has been patched
C4_Witness ==
    \E p \in DOMAIN lines :
        /\ p \in Patched
        /\ In(<<"} else ">>, loaded[p])
        /\ In(<<"// c">>, loaded[p])
        /\ ~In(<<"} else ">>, lines[p])

\* C5: every line of the replacement block begins with the leading
\* whitespace of the matched line, whatever spaces and tabs it is made of.
C5_IndentationPreserved ==
    [][ AppliedStep =>
          LET b == readlines(lines'[pos])
              w == Prefix(lines[pos])
          IN  \A j \in DOMAIN b : SubSeq(b[j], 1, Len(w)) = w
      ]_vars

\* C6: applying a target changes only the entry at the target's index: the
\* list keeps its length and every other entry is the same after the step.
C6_Isolation ==
    [][ AppliedStep =>
          /\ Len(lines') = Len(lines)
          /\ \A j \in DOMAIN lines : j # pos => lines'[j] = lines[j]
          /\ lines'[pos] # lines[pos]
      ]_vars

\* a target has been applied while another entry, which also holds the
\* pattern, is still as loaded
C6_Witness ==
    /\ pc = "loop"
    /\ \E p, q \in DOMAIN lines :
          /\ p # q
          /\ p \in Patched
          /\ q \notin Patched
          /\ In(Pattern, lines[q])
          /\ lines[q] = loaded[q]

\* C7 (as stated): no error is ever raised by the patch loop.
C7_NoError == pc # "error"

\* C7 (amended): no error is raised for a target whose index i satisfies
\* -n <= i < n for a document of n lines: each such target ends applied or
\* skipped, and a run whose targets are all in that range completes and
\* writes the document; the run stops with an error exactly at the first
\* target outside that range.
C7_ErrorOnlyOutOfRange ==
    LET n == Len(lines)
        ok(j) == -n <= fix_lines[j] /\ fix_lines[j] < n
    IN  /\ pc = "error" =>
              /\ k \in DOMAIN fix_lines
              /\ ~ok(k)
        /\ pc \in {"loop", "error"} =>
              /\ Len(outcome) = k - 1
              /\ \A j \in 1..(k - 1) : ok(j)
        /\ pc \in {"print", "done"} =>
              /\ \A j \in DOMAIN fix_lines : ok(j)
              /\ Len(outcome) = Len(fix_lines)
              /\ file = writelines(lines)

\* a target with a negative index has been applied and the run has ended
C7_Witness ==
    /\ pc = "done"
    /\ \E j \in DOMAIN fix_lines : fix_lines[j] < 0 /\ outcome[j] = "applied"

\* C8: with a target whose index is past the end of the document the loop
\* never gets beyond that target, nothing is written or printed, and the
\* stored file stays as loaded, whatever was patched in memory before.
C8_PastEndAborts ==
    LET bad == { j \in DOMAIN fix_lines : fix_lines[j] >= Len(loaded) }
    IN  (pc # "read" /\ bad # {}) =>
            /\ pc \in {"loop", "error"}
            /\ \A j \in bad : k <= j
            /\ file = file0
            /\ stdout = <<>>
            /\ (k \in bad => pc = "error" \/ ENABLED StepIndexError)

\* the run has stopped with an error after a patch was made in memory; the
\* stored file is as loaded
C8_Witness ==
    /\ pc = "error"
    /\ fix_lines[k] >= Len(loaded)
    /\ AppliedCount > 0
    /\ lines # loaded
    /\ file = file0
    /\ writelines(lines) # file

\* C9 (as stated): the list keeps its length, and every target is tested
\* against the line the loaded document held at its index.
C9_IndexStability ==
    pc # "read" =>
        /\ Len(lines) = Len(loaded)
        /\ (InLoop /\ InRange(line_idx, Len(lines))) => lines[pos] = loaded[pos]

\* C9 (amended): the list keeps its length, and every entry that no applied
\* target addressed is the loaded line; so a target is tested against the
\* loaded line at its index unless an earlier target addressing the same
\* entry was applied, and then against the block that replaced it.
C9_IndexStabilityAmended ==
    pc # "read" =>
        /\ Len(lines) = Len(loaded)
        /\ \A p \in DOMAIN lines :
              IF p \in Patched
              THEN lines[p] = join(new_lines(indent_str(indent(loaded[p]))))
              ELSE lines[p] = loaded[p]

\* after a patch at a lower index, a later target is about to be tested
\* against a loaded line holding the pattern
C9_Witness ==
    /\ InLoop
    /\ outcome = <<"applied">>
    /\ InRange(line_idx, Len(lines))
    /\ \A p \in Patched : p < pos
    /\ lines[pos] = loaded[pos]
    /\ In(Pattern, lines[pos])

\* C10: the content at an index a target was applied to does not contain
\* the pattern, and no entry is patched by more than one target of a run.
C10_PatchedOnce ==
    /\ \A p \in DOMAIN lines : p \in Patched => ~In(Pattern, lines[p])
    /\ \A i, j \in DOMAIN outcome :
          (/\ outcome[i] = "applied"
           /\ outcome[j] = "applied"
           /\ At(fix_lines[i], Len(loaded)) = At(fix_lines[j], Len(loaded))) => i = j

\* an index listed twice has been applied the first time and skipped the second
C10_Witness ==
    /\ outcome = <<"applied", "skipped">>
    /\ fix_lines[1] = fix_lines[2]

====
